---- MODULE Spec2Model ----
(***************************************************************************)
(* A model of the SalesForecast React component                            *)
(* (src/src/components/SalesForecast.jsx): the CSV upload parser, the      *)
(* feature encoder, the asynchronous training run with its epoch           *)
(* callback, and the generation of the six-month forecast.                 *)
(*                                                                         *)
(* Strings of the program are sequences of one-character strings, so that  *)
(* split, trim, the date pattern, parseFloat and Number() are computed     *)
(* character by character as JavaScript computes them.                     *)
(***************************************************************************)
EXTENDS Integers, Sequences, FiniteSets, TLC

VARIABLES
    salesData,        \* useState([])    line 7: the loaded observations
    predictions,      \* useState([])    line 6
    model,            \* useState(null)  line 8
    status,           \* useState('')    line 9
    selectedProduct,  \* useState('all') line 10
    isModelTrained,   \* useState(false) line 11
    runs,             \* the calls of trainModel, each with its closure and locals
    tz,               \* the machine's offset from UTC, in hours (local = UTC + tz)
    lastGen,          \* history: the tables used by the last predictSales that stored
    lastUpload        \* history: the last text read, and whether salesData was kept

vars == <<salesData, predictions, model, status, selectedProduct,
          isModelTrained, runs, tz, lastGen, lastUpload>>

----------------------------------------------------------------------------
(* TLC evaluates a definition's body each time its name is used.  Where a  *)
(* value is computed once in the program and then read several times (a    *)
(* `const`), it is bound once here too, as the element of a singleton set. *)

WithValue(e, Body(_)) == CHOOSE r \in {Body(v) : v \in {e}} : TRUE

(* Records list their fields in the order in which the field names first   *)
(* occur in this module, the order of TLC's normal form of a record, so    *)
(* that a record shared by two workers is never reordered in place.        *)

----------------------------------------------------------------------------
(* Characters and strings *)

DigitChars == <<"0", "1", "2", "3", "4", "5", "6", "7", "8", "9">>

IsDigit(c) == \E i \in 1..10 : DigitChars[i] = c

DigitVal(c) == (CHOOSE i \in 1..10 : DigitChars[i] = c) - 1

\* The white space String.prototype.trim, parseFloat and Number() strip
\* (of the characters the inputs below are written in).
IsSpace(c) == c \in {" ", "\t", "\r", "\n"}

SubStr(s, a, b) == IF a > b THEN <<>> ELSE SubSeq(s, a, b)

RECURSIVE SplitFrom(_, _, _, _)
SplitFrom(s, sep, i, cur) ==
    IF i > Len(s) THEN <<cur>>
    ELSE IF s[i] = sep THEN <<cur>> \o SplitFrom(s, sep, i + 1, <<>>)
    ELSE SplitFrom(s, sep, i + 1, Append(cur, s[i]))

\* String.prototype.split with a one-character separator: ''.split(x) is [''].
split(s, sep) == SplitFrom(s, sep, 1, <<>>)

RECURSIVE TrimStart(_)
TrimStart(s) ==
    IF s # <<>> /\ IsSpace(Head(s)) THEN TrimStart(Tail(s)) ELSE s

RECURSIVE TrimEnd(_)
TrimEnd(s) ==
    IF s # <<>> /\ IsSpace(s[Len(s)]) THEN TrimEnd(SubStr(s, 1, Len(s) - 1)) ELSE s

trim(s) == TrimEnd(TrimStart(s))

\* item.trim().replace(/"/g, '')
CleanField(item) == SelectSeq(trim(item), LAMBDA c : c # "\"")

\* /^\d{4}-\d{2}$/
MatchesDatePattern(s) ==
    /\ Len(s) = 7
    /\ \A i \in {1, 2, 3, 4, 6, 7} : IsDigit(s[i])
    /\ s[5] = "-"

RECURSIVE CountDigits(_, _)
CountDigits(s, i) ==
    IF i <= Len(s) /\ IsDigit(s[i]) THEN 1 + CountDigits(s, i + 1) ELSE 0

RECURSIVE DigitsToNat(_)
DigitsToNat(s) ==
    IF s = <<>> THEN 0
    ELSE 10 * DigitsToNat(SubStr(s, 1, Len(s) - 1)) + DigitVal(s[Len(s)])

InfinityChars == <<"I", "n", "f", "i", "n", "i", "t", "y">>

\* A finite number is mant * 10^(-scale), kept in lowest terms of ten.
RECURSIVE NormNum(_, _)
NormNum(mant, scale) ==
    IF mant = 0 THEN [mant |-> 0, scale |-> 0, kind |-> "num"]
    ELSE IF scale > 0 /\ mant % 10 = 0 THEN NormNum(mant \div 10, scale - 1)
    ELSE IF scale < 0 THEN NormNum(mant * 10, scale + 1)
    ELSE [mant |-> mant, scale |-> scale, kind |-> "num"]

NaN == [mant |-> 0, scale |-> 0, kind |-> "NaN"]
PosInfinity == [mant |-> 0, scale |-> 0, kind |-> "Infinity"]
NegInfinity == [mant |-> 0, scale |-> 0, kind |-> "-Infinity"]

\* The longest prefix of s that is a StrDecimalLiteral (ECMAScript 7.1.4.1):
\* [len |-> its length, 0 when there is none; val |-> its value].
ScanDecimal(s) ==
    LET signed == s # <<>> /\ s[1] \in {"+", "-"}
        neg    == s # <<>> /\ s[1] = "-"
        i      == IF signed THEN 2 ELSE 1
        isInf  == Len(s) >= i + 7 /\ SubStr(s, i, i + 7) = InfinityChars
        nInt   == CountDigits(s, i)
        dot    == i + nInt <= Len(s) /\ s[i + nInt] = "."
        nFrac  == IF dot THEN CountDigits(s, i + nInt + 1) ELSE 0
        okMant == nInt > 0 \/ (dot /\ nFrac > 0)
        j      == i + nInt + (IF dot THEN 1 + nFrac ELSE 0)
        hasE   == j <= Len(s) /\ s[j] \in {"e", "E"}
        eSign  == hasE /\ j + 1 <= Len(s) /\ s[j + 1] \in {"+", "-"}
        k      == IF eSign THEN j + 2 ELSE j + 1
        nExp   == IF hasE THEN CountDigits(s, k) ELSE 0
        okExp  == hasE /\ nExp > 0
        expV   == IF okExp THEN DigitsToNat(SubStr(s, k, k + nExp - 1)) ELSE 0
        exp    == IF okExp /\ eSign /\ s[j + 1] = "-" THEN 0 - expV ELSE expV
        digits == SubStr(s, i, i + nInt - 1)
                    \o (IF dot THEN SubStr(s, i + nInt + 1, i + nInt + nFrac) ELSE <<>>)
        mag    == DigitsToNat(digits)
    IN  IF isInf THEN [len |-> i + 7, val |-> IF neg THEN NegInfinity ELSE PosInfinity]
        ELSE IF ~okMant THEN [len |-> 0, val |-> NaN]
        ELSE [len |-> IF okExp THEN k + nExp - 1 ELSE j - 1,
              val |-> NormNum(IF neg THEN 0 - mag ELSE mag, nFrac - exp)]

\* A field of the destructured row: undefined when the row has fewer fields.
Undefined == [s |-> <<>>, def |-> FALSE]
Defined(s) == [s |-> s, def |-> TRUE]

\* parseFloat(x): the value of the longest numeric prefix after leading white
\* space, NaN when there is none (parseFloat(undefined) is NaN).
parseFloat(x) ==
    IF ~x.def THEN NaN
    ELSE WithValue(TrimStart(x.s), LAMBDA s : ScanDecimal(s).val)

IsRadixDigit(c, radix) ==
    CASE radix = 2  -> c \in {"0", "1"}
      [] radix = 8  -> c \in {"0", "1", "2", "3", "4", "5", "6", "7"}
      [] radix = 16 -> IsDigit(c) \/ c \in {"a", "b", "c", "d", "e", "f",
                                            "A", "B", "C", "D", "E", "F"}

\* 0x.., 0o.., 0b.. literals, which Number() accepts unsigned.
IsRadixLiteral(s) ==
    /\ Len(s) >= 3
    /\ s[1] = "0"
    /\ \E p \in {<<"x", 16>>, <<"X", 16>>, <<"o", 8>>, <<"O", 8>>,
                 <<"b", 2>>, <<"B", 2>>} :
          /\ s[2] = p[1]
          /\ \A i \in 3..Len(s) : IsRadixDigit(s[i], p[2])

\* isNaN(x): Number(x) is NaN.  Number(undefined) is NaN; Number of a string
\* is 0 for the empty or blank string, and otherwise a number only when the
\* whole trimmed string is a numeric literal.
isNaN(x) ==
    IF ~x.def THEN TRUE
    ELSE WithValue(trim(x.s), LAMBDA t :
             ~ \/ t = <<>>
               \/ ScanDecimal(t).len = Len(t)
               \/ IsRadixLiteral(t))

isNaNNumber(v) == v.kind = "NaN"

----------------------------------------------------------------------------
(* targetFileUpload: the parser of reader.onload *)

FieldAt(fields, k) == IF k <= Len(fields) THEN Defined(fields[k]) ELSE Undefined

DateSuffix == <<"-", "0", "1">>

\* One pass of the loop body (lines 27-42): the line's observation, or no
\* observation when one of the four `continue`s is taken.
\* line.split(',').map(item => item.trim().replace(/"/g, ''))
CleanedFields(line) ==
    WithValue(split(line, ","), LAMBDA fields :
        [k \in 1..Len(fields) |-> CleanField(fields[k])])

ParseLine(line) ==
    IF trim(line) = <<>> THEN <<>>
    ELSE WithValue(CleanedFields(line), LAMBDA cleaned :
        LET date     == FieldAt(cleaned, 1)
            product  == FieldAt(cleaned, 2)
            quantity == FieldAt(cleaned, 3)
        IN  IF ~(date.def /\ MatchesDatePattern(date.s)) THEN <<>>
            ELSE WithValue(parseFloat(quantity), LAMBDA numQuantity :
                IF isNaNNumber(numQuantity) THEN <<>>
                ELSE IF ~isNaN(product) THEN <<>>
                ELSE << [date     |-> date.s \o DateSuffix,
                         product  |-> product.s,
                         quantity |-> numQuantity] >>))

RECURSIVE ParseLines(_, _)
\* the loop of line 26 from the i-th line on
ParseLines(lines, i) ==
    IF i > Len(lines) THEN <<>>
    ELSE ParseLine(lines[i]) \o ParseLines(lines, i + 1)

\* lines 19-43: parsedData for the text of the file; lines.slice(1) drops
\* the header.
ParsedData(text) ==
    WithValue(split(text, "\n"), LAMBDA lines : ParseLines(lines, 2))

NoStatus == [msg |-> "", epoch |-> 0, loss |-> ""]
Msg(m) == [msg |-> m, epoch |-> 0, loss |-> ""]

\* reader.onload (lines 17-55): the throw of line 46 is caught at line 52.
targetFileUpload(text) ==
    \E parsedData \in {ParsedData(text)} :
        /\ IF Len(parsedData) = 0
           THEN /\ status' = Msg("Error parsing file: No valid data could be parsed from the file")
                /\ UNCHANGED salesData
           ELSE /\ salesData' = parsedData
                /\ status' = Msg("Data loaded successfully! You can now train the model.")
        /\ lastUpload' = [text |-> text, read |-> TRUE, kept |-> salesData' = salesData]
        /\ UNCHANGED <<predictions, model, selectedProduct, isModelTrained,
                       runs, tz, lastGen>>

----------------------------------------------------------------------------
(* dataProcessing: the feature encoder *)

\* The characters of the inputs in the order of their UTF-16 code units,
\* the order Array.prototype.sort compares strings in.
CodeOrder ==
    <<"\t", "\n", "\r", " ", "\"", "+", ",", "-", ".",
      "0", "1", "2", "3", "4", "5", "6", "7", "8", "9",
      "A", "B", "C", "D", "E", "F", "G", "I", "K", "W", "X",
      "a", "b", "c", "d", "e", "f", "g", "i", "l", "n", "o", "p", "q",
      "t", "u", "x", "y", "z">>

CodeUnit(c) == CHOOSE i \in 1..Len(CodeOrder) : CodeOrder[i] = c

RECURSIVE StrLess(_, _)
StrLess(a, b) ==
    IF b = <<>> THEN FALSE
    ELSE IF a = <<>> THEN TRUE
    ELSE IF Head(a) = Head(b) THEN StrLess(Tail(a), Tail(b))
    ELSE CodeUnit(Head(a)) < CodeUnit(Head(b))

RECURSIVE Distinct(_)
\* [...new Set(xs)]: the distinct elements in the order of first occurrence.
Distinct(xs) ==
    IF xs = <<>> THEN <<>>
    ELSE LET init == Distinct(SubStr(xs, 1, Len(xs) - 1))
             x    == xs[Len(xs)]
         IN  IF \E i \in 1..Len(init) : init[i] = x THEN init ELSE Append(init, x)

RECURSIVE InsertSorted(_, _)
InsertSorted(sorted, x) ==
    IF sorted = <<>> THEN <<x>>
    ELSE IF StrLess(x, Head(sorted)) THEN <<x>> \o sorted
    ELSE <<Head(sorted)>> \o InsertSorted(Tail(sorted), x)

RECURSIVE SortStrings(_)
SortStrings(xs) ==
    IF xs = <<>> THEN <<>>
    ELSE InsertSorted(SortStrings(SubStr(xs, 1, Len(xs) - 1)), xs[Len(xs)])

indexOf(xs, x) ==
    IF \E i \in 1..Len(xs) : xs[i] = x
    THEN (CHOOSE i \in 1..Len(xs) : xs[i] = x /\ \A j \in 1..(i - 1) : xs[j] # x) - 1
    ELSE -1

RECURSIVE GCD(_, _)
GCD(a, b) == IF b = 0 THEN a ELSE GCD(b, a % b)

\* The quotient a / b of two naturals, b > 0, in lowest terms.
Frac(a, b) == LET g == GCD(a, b) IN [num |-> a \div g, den |-> b \div g]

\* x / 1000 of a parsed quantity
DivThousand(q) == IF q.kind = "num" THEN NormNum(q.mant, q.scale + 3) ELSE q

NotProcessed ==
    [ok |-> FALSE, products |-> <<>>, dates |-> <<>>, encoder |-> <<>>,
     inputs |-> <<>>, outputs |-> <<>>]

\* dataProcessing (lines 60-91) over the salesData of the closure it runs
\* in: NotProcessed stands for the null of line 89.
dataProcessing(sd) ==
    IF Len(sd) = 0 THEN NotProcessed
    ELSE WithValue(Distinct([i \in 1..Len(sd) |-> sd[i].product]), LAMBDA products :
         WithValue(SortStrings(Distinct([i \in 1..Len(sd) |-> sd[i].date])), LAMBDA dates :
         WithValue([p \in {products[i] : i \in 1..Len(products)} |->
                      Frac(indexOf(products, p), Len(products))], LAMBDA encoder :
             [ok       |-> TRUE,
              products |-> products,
              dates    |-> dates,
              encoder  |-> encoder,
              inputs   |-> [i \in 1..Len(sd) |->
                              <<Frac(indexOf(dates, sd[i].date), Len(dates)),
                                encoder[sd[i].product]>>],
              outputs  |-> [i \in 1..Len(sd) |-> DivThousand(sd[i].quantity)]])))

ProcessingError == Msg("Error processing data: No data available for processing")

----------------------------------------------------------------------------
(* Date: the time value is in hours since 1970-01-01T00:00Z *)

DaysFromCivil(y, m, d) ==
    LET yy  == IF m <= 2 THEN y - 1 ELSE y
        era == yy \div 400
        yoe == yy - era * 400
        mp  == IF m > 2 THEN m - 3 ELSE m + 9
        doy == (153 * mp + 2) \div 5 + d - 1
        doe == yoe * 365 + yoe \div 4 - yoe \div 100 + doy
    IN  era * 146097 + doe - 719468

CivilFromDays(z0) ==
    LET z   == z0 + 719468
        era == z \div 146097
        doe == z - era * 146097
        yoe == (doe - doe \div 1460 + doe \div 36524 - doe \div 146096) \div 365
        doy == doe - (365 * yoe + yoe \div 4 - yoe \div 100)
        mp  == (5 * doy + 2) \div 153
        d   == doy - (153 * mp + 2) \div 5 + 1
        m   == IF mp < 10 THEN mp + 3 ELSE mp - 9
    IN  [m |-> m, y |-> yoe + era * 400 + (IF m <= 2 THEN 1 ELSE 0), d |-> d]

InvalidDate == [t |-> 0, valid |-> FALSE]

\* new Date(s) for s of the shape the parser stores, 'YYYY-MM-DD': a
\* date-only ISO string is UTC midnight, and a month or day out of range
\* gives an Invalid Date.
NewDate(s) ==
    LET y == DigitsToNat(SubStr(s, 1, 4))
        m == DigitsToNat(SubStr(s, 6, 7))
        d == DigitsToNat(SubStr(s, 9, 10))
    IN  IF /\ m \in 1..12
           /\ d >= 1
           /\ d <= DaysFromCivil(IF m = 12 THEN y + 1 ELSE y,
                                 IF m = 12 THEN 1 ELSE m + 1, 1)
                     - DaysFromCivil(y, m, 1)
        THEN [t |-> 24 * DaysFromCivil(y, m, d), valid |-> TRUE]
        ELSE InvalidDate

LocalFields(date, offset) ==
    WithValue(CivilFromDays((date.t + offset) \div 24), LAMBDA c :
        [m |-> c.m - 1, y |-> c.y, d |-> c.d, h |-> (date.t + offset) % 24])

\* Date.prototype.getMonth: the month of the local time, 0..11; NoMonth
\* stands for the NaN of an Invalid Date.
NoMonth == -1
getMonth(date, offset) ==
    IF date.valid THEN LocalFields(date, offset).m ELSE NoMonth

\* Date.prototype.setMonth(month): the local year and month are replaced,
\* the local day of the month and time of day kept, and a day past the end
\* of the month runs over into the next.
setMonth(date, month, offset) ==
    IF ~date.valid \/ month = NoMonth THEN InvalidDate
    ELSE WithValue(LocalFields(date, offset), LAMBDA f :
             LET ym  == f.y * 12 + month
                 day == DaysFromCivil(ym \div 12, (ym % 12) + 1, 1) + f.d - 1
             IN  [t |-> day * 24 + f.h - offset, valid |-> TRUE])

RECURSIVE PadDigits(_, _)
PadDigits(n, width) ==
    IF width = 0 THEN <<>>
    ELSE Append(PadDigits(n \div 10, width - 1), DigitChars[(n % 10) + 1])

\* toISOString().slice(0, 7): 'YYYY-MM' of the UTC date, and the first seven
\* characters of the expanded year ('+YYYYYY') outside 0..9999.
IsoMonth(date) ==
    WithValue(CivilFromDays(date.t \div 24), LAMBDA c :
        IF c.y \in 0..9999
        THEN PadDigits(c.y, 4) \o <<"-">> \o PadDigits(c.m, 2)
        ELSE <<IF c.y < 0 THEN "-" ELSE "+">>
               \o PadDigits(IF c.y < 0 THEN 0 - c.y ELSE c.y, 6))

----------------------------------------------------------------------------
(* predictSales: the forecast generator *)

Horizon == 6

RECURSIVE Pow10(_)
Pow10(n) == IF n = 0 THEN 1 ELSE 10 * Pow10(n - 1)

\* x * 1000
TimesThousand(v) == IF v.kind = "num" THEN NormNum(v.mant, v.scale - 3) ELSE v

\* Math.round: the integer nearest to x, a tie going up; NaN and the
\* infinities are returned as they are.
MathRound(v) ==
    IF v.kind = "num"
    THEN NormNum((2 * v.mant + Pow10(v.scale)) \div (2 * Pow10(v.scale)), 0)
    ELSE v

\* Math.max(0, x): NaN when x is NaN.
MathMaxZero(v) ==
    CASE v.kind = "NaN"       -> NaN
      [] v.kind = "Infinity"  -> PosInfinity
      [] v.kind = "-Infinity" -> NormNum(0, 0)
      [] OTHER                -> IF v.mant < 0 THEN NormNum(0, 0) ELSE v

NoModel == [set |-> FALSE, run |-> 0, out |-> NaN]

\* trainedModel.predict(input).dataSync()[0]: the network's output is the
\* library's; the model carries it as the value its weights produce.
Predict(trainedModel, input) == trainedModel.out

Table(processed) ==
    [products |-> processed.products, dates |-> processed.dates,
     encoder |-> processed.encoder]

NoTable == [products |-> <<>>, dates |-> <<>>, encoder |-> <<>>]

\* predictSales (lines 137-168) in a closure whose salesData is sd, on a
\* machine at `offset` hours from UTC.  outcome "stored": setPredictions is
\* reached; "returned": an early return of line 138 or 140; "threw": the
\* RangeError of toISOString on an Invalid Date.
predictSales(trainedModel, sd, offset) ==
    LET none == [predictions |-> <<>>, status |-> NoStatus, outcome |-> "returned",
                 table |-> NoTable]
    IN  IF ~trainedModel.set THEN none
        ELSE WithValue(dataProcessing(sd), LAMBDA processed :
        IF ~processed.ok THEN [none EXCEPT !.status = ProcessingError]
        ELSE WithValue(NewDate(processed.dates[Len(processed.dates)]), LAMBDA lastDate :
        LET dates    == processed.dates
            products == processed.products
            Row(product, i) ==
                LET nextDate == setMonth(lastDate, getMonth(lastDate, offset) + i, offset)
                    input    == <<Frac(Len(dates) + i, Len(dates) + Horizon),
                                  processed.encoder[product]>>
                    value    == TimesThousand(Predict(trainedModel, input))
                IN  [date     |-> IsoMonth(nextDate),
                     product  |-> product,
                     quantity |-> MathMaxZero(MathRound(value))]
        IN  IF ~lastDate.valid
            THEN [none EXCEPT !.outcome = "threw", !.status = Msg("Invalid time value")]
            ELSE [predictions |-> [k \in 1..(Horizon * Len(products)) |->
                                     Row(products[((k - 1) \div Horizon) + 1],
                                         ((k - 1) % Horizon) + 1)],
                  status      |-> NoStatus,
                  outcome     |-> "stored",
                  table       |-> Table(processed)]))

----------------------------------------------------------------------------
(* trainModel: one asynchronous training run *)

Epochs == 150

\* A callback that tests the index of the epoch, not the count of epochs done.
ReportsOnIndex(epoch) == epoch % 10 = 0

\* line 121: whether the callback of the epoch with this 0-based index reports
Reports(epoch) == (epoch + 1) % 10 = 0

\* onEpochEnd (lines 120-124) on p = [status, log]: log is the history of
\* the run's notifications.
onEpochEnd(p, epoch, loss) ==
    IF Reports(epoch)
    THEN [status |-> [msg |-> "training epoch... /150, loss: ", epoch |-> epoch + 1,
                      loss |-> loss],
          log    |-> Append(p.log, [epoch |-> epoch + 1, ev |-> "progress"])]
    ELSE p

RECURSIVE FitEpochs(_, _, _, _)
\* the epochs from..(to - 1) of model.fit in their order, each ending in the
\* callback (the first half of the range, then the second on its result)
FitEpochs(p, from, to, loss) ==
    IF from >= to THEN p
    ELSE IF to = from + 1 THEN onEpochEnd(p, from, loss)
    ELSE WithValue(FitEpochs(p, from, (from + to) \div 2, loss), LAMBDA half :
             FitEpochs(half, (from + to) \div 2, to, loss))

\* logs.loss.toFixed(4)
Losses == {"0.0412", "NaN"}

\* The outputs a fitted network may give: negative, fractional, large,
\* and the non-finite values of a diverged fit.
RawOutputs ==
    {NormNum(-2, 1), NormNum(12345, 4), NormNum(1234, 4), NaN, PosInfinity}

\* A run that reads the component's latest salesData instead of its closure's.
LatestSalesData(r) == salesData

\* The salesData a run's closure reads: trainModel, predictSales and
\* dataProcessing are those of the render whose button was clicked, so they
\* all see that render's salesData (line 7).
ClosureSalesData(r) == runs[r].scope

InFlight(r) == runs[r].phase = "fitting"

\* The click on the train button (enabled by line 202), through to the
\* await of line 115.
trainModel(limit) ==
    /\ Len(salesData) # 0
    /\ Len(runs) < limit
    /\ \E processed \in {dataProcessing(salesData)} :
           IF ~processed.ok
           THEN /\ status' = ProcessingError
                /\ runs' = Append(runs, [epoch |-> 0, processed |-> processed, log |-> <<>>,
                                         scope |-> salesData, phase |-> "returned"])
           ELSE /\ status' = Msg("Training started...")
                /\ runs' = Append(runs, [epoch |-> 0, processed |-> processed, log |-> <<>>,
                                         scope |-> salesData, phase |-> "fitting"])
    /\ UNCHANGED <<salesData, predictions, model, selectedProduct, isModelTrained,
                   tz, lastGen, lastUpload>>

\* One epoch of model.fit ends and its callback runs.
fitEpoch(r) ==
    /\ InFlight(r)
    /\ runs[r].epoch < Epochs
    /\ \E loss \in Losses :
         LET p == onEpochEnd([status |-> status, log |-> runs[r].log],
                             runs[r].epoch, loss)
         IN  /\ status' = p.status
             /\ runs' = [runs EXCEPT ![r].epoch = @ + 1, ![r].log = p.log]
    /\ UNCHANGED <<salesData, predictions, model, selectedProduct, isModelTrained,
                   tz, lastGen, lastUpload>>

\* model.fit runs all its epochs with no other event of the component
\* between them.
modelFit(r) ==
    /\ InFlight(r)
    /\ runs[r].epoch < Epochs
    /\ \E loss \in Losses :
         \E p \in {FitEpochs([status |-> status, log |-> runs[r].log],
                             runs[r].epoch, Epochs, loss)} :
             /\ status' = p.status
             /\ runs' = [runs EXCEPT ![r].epoch = Epochs, ![r].log = p.log]
    /\ UNCHANGED <<salesData, predictions, model, selectedProduct, isModelTrained,
                   tz, lastGen, lastUpload>>

\* model.fit rejects: the catch of line 132.
fitThrows(r) ==
    /\ InFlight(r)
    /\ runs[r].epoch < Epochs
    /\ status' = Msg("fit error")
    /\ runs' = [runs EXCEPT ![r].phase = "failed",
                            ![r].log = Append(@, [epoch |-> 0, ev |-> "error"])]
    /\ UNCHANGED <<salesData, predictions, model, selectedProduct, isModelTrained,
                   tz, lastGen, lastUpload>>

\* After the await (lines 128-134): the fitted model is stored, predictSales
\* runs in the run's closure, and the completion status is set; an error
\* thrown by predictSales is caught at line 132.
trainModelResume(r) ==
    /\ InFlight(r)
    /\ runs[r].epoch = Epochs
    /\ \E out \in RawOutputs :
         \E fitted \in {[set |-> TRUE, run |-> r, out |-> out]} :
         \E res \in {predictSales(fitted, ClosureSalesData(r), tz)} :
             /\ model' = fitted
             /\ isModelTrained' = TRUE
             /\ IF res.outcome = "stored"
                THEN /\ predictions' = res.predictions
                     /\ lastGen' = [run |-> r, train |-> Table(runs[r].processed),
                                    predict |-> res.table]
                     /\ runs' = [runs EXCEPT ![r].phase = "done",
                                   ![r].log = @ \o <<[epoch |-> 0, ev |-> "predictions"],
                                                     [epoch |-> 0, ev |-> "completed"]>>]
                     /\ status' = Msg("Training model completed! Predictions of sales generated.")
                ELSE IF res.outcome = "threw"
                THEN /\ status' = res.status
                     /\ runs' = [runs EXCEPT ![r].phase = "failed",
                                   ![r].log = Append(@, [epoch |-> 0, ev |-> "error"])]
                     /\ UNCHANGED <<predictions, lastGen>>
                ELSE /\ status' = Msg("Training model completed! Predictions of sales generated.")
                     /\ runs' = [runs EXCEPT ![r].phase = "done",
                                   ![r].log = Append(@, [epoch |-> 0, ev |-> "completed"])]
                     /\ UNCHANGED <<predictions, lastGen>>
    /\ UNCHANGED <<salesData, selectedProduct, tz, lastUpload>>

----------------------------------------------------------------------------
(* The product filter and the chart *)

AllProducts == <<"a", "l", "l">>

\* line 182
ProductOptions(sd) == Distinct([i \in 1..Len(sd) |-> sd[i].product])

\* The <select> of lines 219-233, rendered once data is loaded.
selectProduct(p) ==
    /\ Len(salesData) > 0
    /\ p # selectedProduct
    /\ selectedProduct' = p
    /\ UNCHANGED <<salesData, predictions, model, status, isModelTrained, runs,
                   tz, lastGen, lastUpload>>

RECURSIVE InsertByName(_, _)
InsertByName(sorted, x) ==
    IF sorted = <<>> THEN <<x>>
    ELSE IF StrLess(x.name, Head(sorted).name) THEN <<x>> \o sorted
    ELSE <<Head(sorted)>> \o InsertByName(Tail(sorted), x)

RECURSIVE SortByName(_)
SortByName(xs) ==
    IF xs = <<>> THEN <<>>
    ELSE InsertByName(SortByName(SubStr(xs, 1, Len(xs) - 1)), xs[Len(xs)])

\* getChartData (lines 170-180)
getChartData ==
    LET filteredPredictions ==
            IF selectedProduct = AllProducts THEN predictions
            ELSE SelectSeq(predictions, LAMBDA d : d.product = selectedProduct)
    IN  SortByName([i \in 1..Len(filteredPredictions) |->
                      [product   |-> filteredPredictions[i].product,
                       name      |-> filteredPredictions[i].date,
                       predicted |-> filteredPredictions[i].quantity]])

\* The rows the chart of lines 235-269 draws.
ChartRows == IF isModelTrained /\ Len(predictions) > 0 THEN getChartData ELSE <<>>

----------------------------------------------------------------------------
(* The files uploaded *)

Header == <<"d", "a", "t", "e", ",", "p", "r", "o", "d", "u", "c", "t", ",", "q", "u", "a", "n", "t", "i", "t", "y">>
RowJanW == <<"2", "0", "2", "4", "-", "0", "1", ",", "W", ",", "1", "0", "0">>
RowFebG == <<"2", "0", "2", "4", "-", "0", "2", ",", "G", ",", "1", "2", ".", "5">>
\* quoted fields, spaces and a carriage return
RowQuoted == <<"\"", "2", "0", "2", "4", "-", "0", "3", "\"", ",", " ", "\"", "W", "\"", " ", ",", "\"", "7", "\"", "\r">>
RowNegative == <<"2", "0", "2", "4", "-", "1", "0", ",", "K", ",", "-", "3">>
\* a month that is no calendar month
RowMonth13 == <<"2", "0", "2", "4", "-", "1", "3", ",", "W", "i", "d", "g", "e", "t", ",", "1", "0">>
RowNumericProduct == <<"2", "0", "2", "4", "-", "0", "2", ",", "4", "2", ",", "1", "0">>
RowHexProduct == <<"2", "0", "2", "4", "-", "0", "9", ",", "0", "x", "1", "F", ",", "3">>
RowInfinity == <<"2", "0", "2", "4", "-", "0", "4", ",", "G", ",", "I", "n", "f", "i", "n", "i", "t", "y">>
\* a quantity with trailing text
RowTrailing == <<"2", "0", "2", "4", "-", "0", "5", ",", "W", ",", "1", "2", "a", "b", "c">>
RowShortDate == <<"2", "0", "2", "4", "-", "6", ",", "W", ",", "5">>
RowTextQuantity == <<"2", "0", "2", "4", "-", "0", "7", ",", "W", ",", "a", "b", "c">>
RowNoQuantity == <<"2", "0", "2", "4", "-", "0", "8", ",", "K">>
RowBlank == <<" ", " ">>
RowNovW == <<"2", "0", "2", "4", "-", "1", "1", ",", "W", ",", "1", "0", "0">>
RowDecG == <<"2", "0", "2", "4", "-", "1", "2", ",", "G", ",", "5", "0">>
RowJan25G == <<"2", "0", "2", "5", "-", "0", "1", ",", "G", ",", "7">>
RowMonth13W == <<"2", "0", "2", "4", "-", "1", "3", ",", "W", ",", "1", "0">>

RowPool ==
    {RowJanW, RowFebG, RowQuoted, RowNegative, RowMonth13, RowNumericProduct,
     RowHexProduct, RowInfinity, RowTrailing, RowShortDate, RowTextQuantity,
     RowNoQuantity, RowBlank}

MaxRows == 2

RECURSIVE JoinLines(_)
JoinLines(ls) ==
    IF Len(ls) = 0 THEN <<>>
    ELSE IF Len(ls) = 1 THEN ls[1]
    ELSE ls[1] \o <<"\n">> \o JoinLines(Tail(ls))

FileOf(rows) == JoinLines(<<Header>> \o rows)

\* The empty file, and a header followed by up to MaxRows rows of the pool.
ParseTexts ==
    {<<>>} \cup
    UNION {{FileOf(rows) : rows \in [1..n -> RowPool]} : n \in 0..MaxRows}

TextA == FileOf(<<RowNovW, RowDecG>>)
TextB == FileOf(<<RowMonth13W, RowNumericProduct>>)
TextC == FileOf(<<RowJan25G>>)
TextBad == FileOf(<<RowShortDate, RowBlank>>)

Texts == {TextA, TextB, TextC, TextBad}

\* Offsets from UTC of the machine, in hours (zones without daylight saving).
TzOffsets == {-5, 0, 9}

MaxRuns == 2
MaxFitRuns == 1

----------------------------------------------------------------------------
(* The component *)

Init ==
    /\ salesData = <<>>
    /\ predictions = <<>>
    /\ model = NoModel
    /\ status = NoStatus
    /\ selectedProduct = AllProducts
    /\ isModelTrained = FALSE
    /\ runs = <<>>
    /\ tz \in TzOffsets
    /\ lastGen = [run |-> 0, train |-> NoTable, predict |-> NoTable]
    /\ lastUpload = [text |-> <<>>, read |-> FALSE, kept |-> TRUE]

Next ==
    \/ \E text \in Texts : targetFileUpload(text)
    \/ trainModel(MaxRuns)
    \/ \E r \in 1..Len(runs) : modelFit(r)
    \/ \E r \in 1..Len(runs) : fitThrows(r)
    \/ \E r \in 1..Len(runs) : trainModelResume(r)
    \/ \E p \in {AllProducts} \cup {ProductOptions(salesData)[i] :
                    i \in 1..Len(ProductOptions(salesData))} : selectProduct(p)

Spec == Init /\ [][Next]_vars

\* The parser alone, over every file of ParseTexts.
NextParse == \E text \in ParseTexts : targetFileUpload(text)

SpecParse == Init /\ [][NextParse]_vars

\* Training epoch by epoch, from the state an upload of TextA leaves.
InitFit ==
    /\ salesData = ParsedData(TextA)
    /\ predictions = <<>>
    /\ model = NoModel
    /\ status = Msg("Data loaded successfully! You can now train the model.")
    /\ selectedProduct = AllProducts
    /\ isModelTrained = FALSE
    /\ runs = <<>>
    /\ tz \in TzOffsets
    /\ lastGen = [run |-> 0, train |-> NoTable, predict |-> NoTable]
    /\ lastUpload = [text |-> TextA, read |-> TRUE, kept |-> FALSE]

NextFit ==
    \/ trainModel(MaxFitRuns)
    \/ \E r \in 1..Len(runs) : fitEpoch(r)
    \/ \E r \in 1..Len(runs) : fitThrows(r)
    \/ \E r \in 1..Len(runs) : trainModelResume(r)

SpecFit == InitFit /\ [][NextFit]_vars

----------------------------------------------------------------------------
(* The parser's contract, as the specification words it *)

ParseErrorStatus ==
    Msg("Error parsing file: No valid data could be parsed from the file")

CompletedStatus ==
    Msg("Training model completed! Predictions of sales generated.")

\* The whole field is a numeric literal with a finite value.
IsFiniteNumeral(s) ==
    /\ s # <<>>
    /\ ScanDecimal(s).len = Len(s)
    /\ ScanDecimal(s).val.kind = "num"

\* A well-formed row: the date is 4 digits, a dash, 2 digits; the quantity
\* parses as a finite number; the product does not parse as a number.
WellFormedRow(line) ==
    LET f == CleanedFields(line)
    IN  /\ trim(line) # <<>>
        /\ Len(f) >= 3
        /\ MatchesDatePattern(f[1])
        /\ IsFiniteNumeral(f[3])
        /\ isNaN(Defined(f[2]))

ObservationOf(line) ==
    LET f == CleanedFields(line)
    IN  [date |-> f[1] \o DateSuffix, product |-> f[2],
         quantity |-> ScanDecimal(f[3]).val]

DataLines(text) == Tail(split(text, "\n"))

\* The well-formed rows of the text, in their order, as observations.
WellFormedObservations(text) ==
    LET rows == SelectSeq(DataLines(text), WellFormedRow)
    IN  [i \in 1..Len(rows) |-> ObservationOf(rows[i])]

\* C1: when the text read has at least one well-formed row, the stored
\* observations are exactly its well-formed rows, in their order, with
\* '-01' appended to the date; a row whose quantity is not a finite number
\* is not stored.
C1_StoresExactlyWellFormedRows ==
    (lastUpload.read /\ Len(WellFormedObservations(lastUpload.text)) > 0)
        => salesData = WellFormedObservations(lastUpload.text)

\* C2: a text that is only a header, or a header followed only by malformed
\* or blank rows, ends in the parse error and leaves the loaded
\* observations as they were.
C2_OnlyMalformedRowsFail ==
    (lastUpload.read /\ Len(WellFormedObservations(lastUpload.text)) = 0)
        => (status = ParseErrorStatus /\ lastUpload.kept)

ScenarioFile == FileOf(<<RowMonth13, RowNumericProduct>>)

\* C3: the rows `2024-13,Widget,10` and `2024-02,42,10` are both dropped, so
\* the file of a header and these two rows ends in the parse error and
\* yields no observations.
C3_MalformedRowScenarioFails ==
    (lastUpload.read /\ lastUpload.text = ScenarioFile)
        => (status = ParseErrorStatus /\ lastUpload.kept)

----------------------------------------------------------------------------
(* The forecast's contract *)

\* The month `offset` months after the month of date 'YYYY-MM-01', as 'YYYY-MM'.
MonthPlus(date, offset) ==
    LET ym == 12 * DigitsToNat(SubStr(date, 1, 4))
                + DigitsToNat(SubStr(date, 6, 7)) - 1 + offset
    IN  PadDigits(ym \div 12, 4) \o <<"-">> \o PadDigits((ym % 12) + 1, 2)

Generated == lastGen.run # 0

\* C4: the predictions stored are, for each of the P products in turn, the
\* six calendar months after the last observed month, 6 * P in all,
\* whatever the machine's offset from UTC.
C4_SixMonthsAfterLastObserved ==
    Generated =>
        LET products == lastGen.predict.products
            dates    == lastGen.predict.dates
            last     == dates[Len(dates)]
        IN  /\ Len(predictions) = 6 * Len(products)
            /\ \A p \in 1..Len(products) : \A i \in 1..6 :
                 /\ predictions[6 * (p - 1) + i].product = products[p]
                 /\ predictions[6 * (p - 1) + i].date = MonthPlus(last, i)

\* C5: every predicted quantity stored is a non-negative integer, whatever
\* the network's raw output.
C5_QuantityNonNegativeInteger ==
    \A i \in 1..Len(predictions) :
        /\ predictions[i].quantity.kind = "num"
        /\ predictions[i].quantity.scale = 0
        /\ predictions[i].quantity.mant >= 0

\* C6: at most one training run is in flight.
C6_AtMostOneRunInFlight ==
    Cardinality({r \in 1..Len(runs) : InFlight(r)}) <= 1

\* C7: a run that ends in an error surfaces the error in the status and
\* leaves the stored model, the trained flag and the predictions as they
\* were: no model is stored without its predictions.
C7_ErrorLeavesPreRunState ==
    [][\A r \in 1..Len(runs) :
          (InFlight(r) /\ runs'[r].phase = "failed")
              => /\ model' = model
                 /\ isModelTrained' = isModelTrained
                 /\ predictions' = predictions
                 /\ status' \in {Msg("fit error"), Msg("Invalid time value")}]_vars

\* C8: the products, product codes and month list a prediction's feature
\* rows are built from are those of the observation set the run's model was
\* fitted on, also when another file is loaded while the run is in progress.
C8_PredictionsUseTrainingEncoding ==
    Generated => lastGen.predict = lastGen.train

\* A run stored its predictions after other observations had been loaded
\* during it.
C8_Witness ==
    /\ Generated
    /\ status = CompletedStatus
    /\ salesData # runs[lastGen.run].scope

ProgressOf(log) == SelectSeq(log, LAMBDA e : e.ev = "progress")

\* C9: a run notifies its progress after the completed epochs 10, 20, ...,
\* 150 and after no other, in this order, and all 15 notifications come
\* before its predictions are stored and its completion status is set.
C9_ProgressEveryTenthEpoch ==
    \A r \in 1..Len(runs) :
        LET log  == runs[r].log
            prog == ProgressOf(log)
        IN  /\ Len(prog) = runs[r].epoch \div 10
            /\ \A i \in 1..Len(prog) : prog[i].epoch = 10 * i /\ log[i] = prog[i]
            /\ \A i \in 1..Len(log) :
                 log[i].ev \in {"predictions", "completed"} => (i > 15 /\ Len(prog) = 15)
            /\ runs[r].phase = "done" => Len(prog) = 15

\* A run has completed with its 15 notifications, its predictions and its
\* completion status.
C9_Witness ==
    \E r \in 1..Len(runs) : runs[r].phase = "done" /\ Len(runs[r].log) = 17

\* C10: every prediction held for display is of a product of the loaded
\* observations and of a month after their last observed month.
C10_ChartOfLoadedData ==
    \A i \in 1..Len(ChartRows) :
        LET table == Table(dataProcessing(salesData))
            last  == table.dates[Len(table.dates)]
        IN  /\ \E p \in 1..Len(table.products) : table.products[p] = ChartRows[i].product
            /\ StrLess(SubStr(last, 1, 7), ChartRows[i].name)

====
